---- MODULE Spec2Model ----
(***************************************************************************)
(* Model of yandex-cdn-invalidator: the retry engine (src/src/retry.js:    *)
(* the classifier isRetryableError and the executor retryWithBackoff), the *)
(* CDN client (src/src/cdn-client.js: getResourceByCname, purgeCache,      *)
(* getOperationStatus, waitForOperation) and run() (src/src/index.js).     *)
(*                                                                         *)
(* Delays are JavaScript doubles.  Every delay the model produces is a     *)
(* dyadic rational of small magnitude, which a double represents exactly,  *)
(* so delays are modelled as exact fractions [n |-> num, d |-> den] in     *)
(* lowest terms.                                                           *)
(***************************************************************************)
EXTENDS Integers, Sequences, FiniteSets, TLC

VARIABLES
    options,      \* the options object handed to retryWithBackoff
    pc,           \* position of the executor: loop, awaitFn, sleeping, resolved, rejected
    attempt,      \* retry.js:71  let attempt
    delay,        \* retry.js:72  let delay
    error,        \* retry.js:78  the value caught from fn() (last value fn threw)
    isRetryable,  \* retry.js:79  verdict of isRetryableError(error)
    returned,     \* last value fn() resolved with
    onRetryArg,   \* the record passed to the latest onRetry call
    settled,      \* how the promise of retryWithBackoff settled
    trace,        \* history: the externally visible steps, in order
    operationId,     \* cdn-client.js:242  argument of waitForOperation
    timeoutSeconds,  \* cdn-client.js:242  argument of waitForOperation
    now,             \* Date.now(), in ms
    startTime,       \* cdn-client.js:243
    lastProgress,    \* cdn-client.js:252
    pollPc,          \* position of the poller: idle, top, awaitStatus, sleeping, returned, thrown
    operation,       \* cdn-client.js:265  the latest status record received
    pollResult,      \* how the promise of waitForOperation settled
    pollTrace,       \* history of the poller: checks, replies, notifications, sleeps
    inputs,          \* index.js:69-78  the inputs of the action
    runPc,           \* position of run(): idle, called, returned
    failed,          \* the messages handed to core.setFailed
    runCalls,        \* history of run(): the collaborators it called, in order
    resourceId,      \* cdn-client.js:114  argument of purgeCache
    purgePc,         \* position of purgeCache: idle, retrying, returned, thrown
    purgeResult,     \* how the promise of purgeCache settled
    resourceCname,   \* cdn-client.js:53  argument of getResourceByCname
    folderId,        \* cdn-client.js:53  argument of getResourceByCname
    listing,         \* the pages the List API holds for the folder, in order
    pageNo,          \* cdn-client.js:63  pageToken, as the number of the page it names
    lookupPc,        \* position of getResourceByCname: idle, called, requesting, returned, thrown
    lookupResult,    \* how the promise of getResourceByCname settled
    listRequests,    \* history: the pages requested, in order
    execs,           \* two executions of retryWithBackoff in flight: the locals of each
    polls,           \* two executions of waitForOperation in flight: the locals of each
    clock            \* Date.now() read by the two executions of waitForOperation

retryVars == <<options, pc, attempt, delay, error, isRetryable, returned, onRetryArg, settled, trace>>

pollVars ==
    <<operationId, timeoutSeconds, now, startTime, lastProgress, pollPc, operation,
      pollResult, pollTrace>>

runVars == <<inputs, runPc, failed, runCalls>>

clientVars ==
    <<resourceId, purgePc, purgeResult, resourceCname, folderId, listing, pageNo,
      lookupPc, lookupResult, listRequests>>

pairVars == <<execs, polls, clock>>

vars == <<retryVars, pollVars, runVars, clientVars, pairVars>>

----------------------------------------------------------------------------
(* Exact fractions *)

RECURSIVE GCD(_, _)
GCD(a, b) == IF b = 0 THEN a ELSE GCD(b, a % b)

Rat(num, den) ==
    LET g == GCD(num, den)
    IN  IF num = 0 THEN [n |-> 0, d |-> 1] ELSE [n |-> num \div g, d |-> den \div g]

RInt(i) == [n |-> i, d |-> 1]

RMul(a, b) == Rat(a.n * b.n, a.d * b.d)

RLeq(a, b) == a.n * b.d <= b.n * a.d

RLess(a, b) == a.n * b.d < b.n * a.d

\* Math.min on two numbers
MathMin(a, b) == IF RLeq(a, b) THEN a ELSE b

----------------------------------------------------------------------------
(* Error values: what fn() may throw *)

ErrorValue(kind, hasStatus, status, hasCode, code, msgKind, message) ==
    [kind |-> kind, hasStatus |-> hasStatus, status |-> status,
     hasCode |-> hasCode, code |-> code, msgKind |-> msgKind, message |-> message]

\* throw null / throw undefined / throw "text" (a primitive has no own fields)
Bare(kind) == ErrorValue(kind, FALSE, 0, FALSE, "", "undefined", "")

NoError == Bare("none")

\* { response: { status } }
StatusError(s) == ErrorValue("object", TRUE, s, FALSE, "", "undefined", "")

\* { code }
CodeError(c) == ErrorValue("object", FALSE, 0, TRUE, c, "undefined", "")

\* new Error(message)
MessageError(m) == ErrorValue("object", FALSE, 0, FALSE, "", "string", m)

StatusChoices == {0, 200, 400, 401, 403, 404, 408, 429, 500, 502, 503, 504}

CodeChoices == {"ECONNRESET", "ETIMEDOUT", "ENOTFOUND", "ECONNREFUSED", "EPIPE", "econnreset"}

MessageChoices ==
    {"Throttling detected", "TooManyRequests", "Rate limit exceeded",
     "Something went wrong", "Request Throttling", "throttling", "rate limit", ""}

StatusPart == {<<FALSE, 0>>} \cup {<<TRUE, s>> : s \in StatusChoices}

CodePart == {<<FALSE, "">>} \cup {<<TRUE, c>> : c \in CodeChoices}

MessagePart ==
    {<<"undefined", "">>, <<"number", "">>} \cup {<<"string", m>> : m \in MessageChoices}

ObjectErrors ==
    {ErrorValue("object", s[1], s[2], c[1], c[2], m[1], m[2]) :
        s \in StatusPart, c \in CodePart, m \in MessagePart}

AllErrors == {Bare("null"), Bare("undefined"), Bare("primitive")} \cup ObjectErrors

----------------------------------------------------------------------------
(* isRetryableError, retry.js:20-48 *)

\* Faulty variant: the mark is looked for at the start of the message only
IncludesAtStart(s, pat) == Len(pat) <= Len(s) /\ SubSeq(s, 1, Len(pat)) = pat

\* String.prototype.includes: case-sensitive substring test
Includes(s, pat) ==
    \E i \in 1..(Len(s) - Len(pat) + 1) : SubSeq(s, i, i + Len(pat) - 1) = pat

retryableStatusCodes == {408, 429, 500, 502, 503, 504}

NetworkCodes == {"ECONNRESET", "ETIMEDOUT", "ENOTFOUND", "ECONNREFUSED"}

ThrottlingMarks == {"Throttling", "TooManyRequests", "Rate limit"}

\* error.response?.status is truthy: present and not 0
StatusTruthy(e) == e.hasStatus /\ e.status # 0

\* Faulty variant: a status outside the list falls through to the other rules
isRetryableErrorFallThrough(e) ==
    IF e.kind \in {"null", "undefined"} THEN "TypeError"
    ELSE IF StatusTruthy(e) /\ e.status \in retryableStatusCodes THEN "true"
    ELSE IF e.hasCode /\ e.code \in NetworkCodes THEN "true"
    ELSE IF e.msgKind = "number" THEN "TypeError"
    ELSE IF e.msgKind = "string" /\ \E m \in ThrottlingMarks : Includes(e.message, m)
         THEN "true"
    ELSE "false"

\* Faulty variant: a network code outside the list ends the classification
isRetryableErrorCodeExclusive(e) ==
    IF e.kind \in {"null", "undefined"} THEN "TypeError"
    ELSE IF StatusTruthy(e)
         THEN (IF e.status \in retryableStatusCodes THEN "true" ELSE "false")
    ELSE IF e.hasCode THEN (IF e.code \in NetworkCodes THEN "true" ELSE "false")
    ELSE IF e.msgKind = "number" THEN "TypeError"
    ELSE IF e.msgKind = "string" /\ \E m \in ThrottlingMarks : Includes(e.message, m)
         THEN "true"
    ELSE "false"

\* The verdict is "true" or "false"; "TypeError" when the function throws:
\* reading .response of null/undefined (line 24), or calling .includes on a
\* message that is not a string (line 40).
isRetryableError(e) ==
    IF e.kind \in {"null", "undefined"} THEN "TypeError"
    ELSE IF StatusTruthy(e)
         THEN (IF e.status \in retryableStatusCodes THEN "true" ELSE "false")
    ELSE IF e.hasCode /\ e.code \in NetworkCodes THEN "true"
    ELSE IF e.msgKind = "number" THEN "TypeError"
    ELSE IF e.msgKind = "string" /\ \E m \in ThrottlingMarks : Includes(e.message, m)
         THEN "true"
    ELSE "false"

----------------------------------------------------------------------------
(* Options of retryWithBackoff, retry.js:62-69 *)

MaxAttemptsBound == 3

Absent == [given |-> FALSE, v |-> RInt(0)]

Given(x) == [given |-> TRUE, v |-> x]

MaxAttemptsChoices == {Absent} \cup {Given(RInt(i)) : i \in 0..MaxAttemptsBound}

InitialDelayChoices == {Absent, Given(RInt(0)), Given(RInt(10)), Given(RInt(30))}

MaxDelayChoices == {Absent, Given(RInt(20))}

FactorChoices == {Absent, Given(Rat(1, 1)), Given(Rat(2, 1)), Given(Rat(1, 2))}

\* no observer, an observer that returns, an observer that throws
OnRetryChoices == {"null", "returns", "throws"}

OptionChoices ==
    [maxAttempts : MaxAttemptsChoices, initialDelay : InitialDelayChoices,
     maxDelay : MaxDelayChoices, factor : FactorChoices, onRetry : OnRetryChoices]

DefaultMaxAttempts == 12

DefaultInitialDelay == 10000

DefaultMaxDelay == 120000

DefaultFactor == Rat(3, 2)

\* destructuring default: applies when the property is undefined
Destructure(opt, dflt) == IF opt.given THEN opt.v ELSE dflt

maxAttempts == Destructure(options.maxAttempts, RInt(DefaultMaxAttempts)).n

initialDelay == Destructure(options.initialDelay, RInt(DefaultInitialDelay))

maxDelay == Destructure(options.maxDelay, RInt(DefaultMaxDelay))

factor == Destructure(options.factor, DefaultFactor)

\* Faulty variant: an exception of the observer is swallowed
onRetryQuiet == IF options.onRetry = "throws" THEN "returns" ELSE options.onRetry

onRetry == options.onRetry

----------------------------------------------------------------------------
(* What fn() may do *)

ThrownChoices ==
    {Bare("null"),
     StatusError(404), StatusError(429), StatusError(503),
     CodeError("ECONNRESET"),
     MessageError("Rate limit exceeded"), MessageError("Something went wrong"),
     ErrorValue("object", FALSE, 0, FALSE, "", "number", ""),
     ErrorValue("object", TRUE, 404, TRUE, "ECONNRESET", "string", "Throttling detected")}

ReturnChoices == {"success", "other"}

NoValue == ""

NoRecord == [attempt |-> 0, maxAttempts |-> 0, delay |-> RInt(0), error |-> NoError]

Pending == [state |-> "pending", origin |-> "none", error |-> NoError, value |-> NoValue]

Resolved(v) == [state |-> "resolved", origin |-> "fn", error |-> NoError, value |-> v]

\* origin: fn (the caught value rethrown, line 83), isRetryableError (its
\* TypeError escapes the catch block, line 79), onRetry (the observer's
\* exception escapes, line 87), loopExit (line 101)
Rejected(origin, e) == [state |-> "rejected", origin |-> origin, error |-> e, value |-> NoValue]

\* one entry of the history: the step, the attempt counter and the delay it saw,
\* and (for a failure of fn) the verdict of the classifier
Event(ev, a, d, verdict) == [ev |-> ev, attempt |-> a, delay |-> d, retryable |-> verdict]

----------------------------------------------------------------------------
(* JavaScript values the poller reads: undefined, a number or a string *)

Undefined == [t |-> "undefined", n |-> 0, s |-> ""]

Num(i) == [t |-> "num", n |-> i, s |-> ""]

Str(x) == [t |-> "str", n |-> 0, s |-> x]

\* ToBoolean: undefined, 0 and "" are falsy
Truthy(v) == (v.t = "num" /\ v.n # 0) \/ (v.t = "str" /\ v.s # "")

\* a || b
OrElse(a, b) == IF Truthy(a) THEN a ELSE b

\* ${v} in a template literal
Text(v) == CASE v.t = "num" -> ToString(v.n) [] v.t = "str" -> v.s [] OTHER -> "undefined"

\* a status record: done is "true", "false" or "absent"; error is present or
\* not, with its code and message; progress is metadata?.progress
OperationRecord(done, hasError, code, message, progress) ==
    [done |-> done, hasError |-> hasError, code |-> code, message |-> message,
     progress |-> progress]

NoOperation == OperationRecord("absent", FALSE, Undefined, Undefined, Undefined)

PollPending == [state |-> "pending", kind |-> "none", message |-> "", operation |-> NoOperation]

\* the poller and run() at rest, while another component is examined
PollIdle ==
    /\ operationId = ""
    /\ timeoutSeconds = 0
    /\ now = 0
    /\ startTime = 0
    /\ lastProgress = Undefined
    /\ pollPc = "idle"
    /\ operation = NoOperation
    /\ pollResult = PollPending
    /\ pollTrace = <<>>

NoInputs ==
    [resourceId |-> "", resourceCname |-> "", folderId |-> "", skipNotFound |-> "",
     paths |-> "", wait |-> "", timeout |-> ""]

RunIdle ==
    /\ inputs = NoInputs
    /\ runPc = "idle"
    /\ failed = <<>>
    /\ runCalls = <<>>

\* purgeCache and getResourceByCname at rest
ClientIdle ==
    /\ resourceId = ""
    /\ purgePc = "idle"
    /\ purgeResult = [state |-> "pending", kind |-> "none", message |-> "", id |-> ""]
    /\ resourceCname = ""
    /\ folderId = ""
    /\ listing = <<>>
    /\ pageNo = 0
    /\ lookupPc = "idle"
    /\ lookupResult = [state |-> "pending", kind |-> "none", message |-> "", resource |-> [id |-> "", cname |-> ""]]
    /\ listRequests = <<>>

\* no pair of executions in flight
PairIdle ==
    /\ execs = <<>>
    /\ polls = <<>>
    /\ clock = 0

----------------------------------------------------------------------------
(* retryWithBackoff, retry.js:62-102 *)

Init ==
    /\ options \in OptionChoices
    /\ pc = "loop"
    /\ attempt = 0
    /\ delay = initialDelay
    /\ error = NoError
    /\ isRetryable = "unset"
    /\ returned = NoValue
    /\ onRetryArg = NoRecord
    /\ settled = Pending
    /\ trace = <<>>
    /\ PollIdle
    /\ RunIdle
    /\ ClientIdle
    /\ PairIdle

\* Faulty variant: the loop admits one more round
LoopConditionInclusive == attempt <= maxAttempts

\* line 74
LoopCondition == attempt < maxAttempts

\* Faulty variant: the counter skips a number
NextAttemptSkip == attempt + 2

\* line 76
NextAttempt == attempt + 1

\* Faulty variant: off by one, the last allowed attempt is given up
IsLastAttemptEarly == attempt >= maxAttempts - 1

\* Faulty variant: off by one, the last attempt is not recognised
IsLastAttemptLate == attempt > maxAttempts

\* line 80
IsLastAttempt == attempt >= maxAttempts

\* Faulty variant: only exhaustion ends the sequence
MustThrowOnlyLast(verdict) == IsLastAttempt

\* line 82
MustThrow(verdict) == verdict # "true" \/ IsLastAttempt

\* lines 87-92
AttemptRecord(e) ==
    [attempt |-> attempt, maxAttempts |-> maxAttempts, delay |-> delay, error |-> e]

\* Faulty variant: no clamp
NextDelayUnclamped == RMul(delay, factor)

\* Faulty variant: additive instead of multiplicative growth
NextDelayAdditive == MathMin(Rat(delay.n * initialDelay.d + initialDelay.n * delay.d,
                                 delay.d * initialDelay.d), maxDelay)

\* line 96
NextDelay == MathMin(RMul(delay, factor), maxDelay)

\* Faulty variant: the delay is clamped before it is slept
SleepDurationClamped == MathMin(delay, maxDelay)

\* Faulty variant: the delay is scaled before the sleep
SleepDurationScaled == NextDelay

\* line 95
SleepDuration == delay

\* while test passes: attempt++ and fn() is invoked (lines 74-77)
LoopEnter ==
    /\ pc = "loop"
    /\ LoopCondition
    /\ attempt' = NextAttempt
    /\ pc' = "awaitFn"
    /\ trace' = Append(trace, Event("invoke", attempt', delay, ""))
    /\ UNCHANGED <<options, delay, error, isRetryable, returned, onRetryArg, settled>>
    /\ UNCHANGED <<pollVars, runVars, clientVars, pairVars>>

\* while test fails: line 101
LoopExit ==
    /\ pc = "loop"
    /\ ~LoopCondition
    /\ pc' = "rejected"
    /\ settled' = Rejected("loopExit", NoError)
    /\ UNCHANGED <<options, attempt, delay, error, isRetryable, returned, onRetryArg, trace>>
    /\ UNCHANGED <<pollVars, runVars, clientVars, pairVars>>

\* fn() resolves: return await fn() (line 77)
FnResolves(v) ==
    /\ pc = "awaitFn"
    /\ returned' = v
    /\ pc' = "resolved"
    /\ settled' = Resolved(v)
    /\ trace' = Append(trace, Event("returned", attempt, delay, ""))
    /\ UNCHANGED <<options, attempt, delay, error, isRetryable, onRetryArg>>
    /\ UNCHANGED <<pollVars, runVars, clientVars, pairVars>>

\* fn() rejects: the catch block up to the sleep (lines 78-95)
FnRejects(e) ==
    /\ pc = "awaitFn"
    /\ error' = e
    /\ isRetryable' = isRetryableError(e)
    /\ LET verdict == isRetryableError(e)
           threw   == Append(trace, Event("threw", attempt, delay, verdict))
           called  == Append(threw, Event("onRetry", AttemptRecord(e).attempt, AttemptRecord(e).delay, ""))
       IN  IF verdict = "TypeError"
           THEN /\ pc' = "rejected"
                /\ settled' = Rejected("isRetryableError", NoError)
                /\ trace' = threw
                /\ UNCHANGED onRetryArg
           ELSE IF MustThrow(verdict)
           THEN /\ pc' = "rejected"
                /\ settled' = Rejected("fn", e)
                /\ trace' = threw
                /\ UNCHANGED onRetryArg
           ELSE IF onRetry = "throws"
           THEN /\ pc' = "rejected"
                /\ settled' = Rejected("onRetry", NoError)
                /\ onRetryArg' = AttemptRecord(e)
                /\ trace' = called
           ELSE /\ pc' = "sleeping"
                /\ UNCHANGED settled
                /\ onRetryArg' = IF onRetry = "null" THEN onRetryArg ELSE AttemptRecord(e)
                /\ trace' = Append(IF onRetry = "null" THEN threw ELSE called,
                                   Event("sleep", attempt, SleepDuration, ""))
    /\ UNCHANGED <<options, attempt, delay, returned>>
    /\ UNCHANGED <<pollVars, runVars, clientVars, pairVars>>

\* the timer fires: delay is advanced and the loop continues (lines 95-97)
SleepDone ==
    /\ pc = "sleeping"
    /\ delay' = NextDelay
    /\ pc' = "loop"
    /\ trace' = Append(trace, Event("advance", attempt, delay', ""))
    /\ UNCHANGED <<options, attempt, error, isRetryable, returned, onRetryArg, settled>>
    /\ UNCHANGED <<pollVars, runVars, clientVars, pairVars>>

Next ==
    \/ LoopEnter
    \/ LoopExit
    \/ \E v \in ReturnChoices : FnResolves(v)
    \/ \E e \in ThrownChoices : FnRejects(e)
    \/ SleepDone

Spec == Init /\ [][Next]_vars

\* every await settles: fn() resolves or rejects, the timer of sleep fires
SpecFair == Spec /\ WF_vars(Next)

----------------------------------------------------------------------------
(* The classifier on its own: one error value in, one verdict out *)

DefaultOptions ==
    [maxAttempts |-> Absent, initialDelay |-> Absent, maxDelay |-> Absent,
     factor |-> Absent, onRetry |-> "null"]

InitClassify ==
    /\ options = DefaultOptions
    /\ pc = "classify"
    /\ attempt = 0
    /\ delay = initialDelay
    /\ error \in AllErrors
    /\ isRetryable = "unset"
    /\ returned = NoValue
    /\ onRetryArg = NoRecord
    /\ settled = Pending
    /\ trace = <<>>
    /\ PollIdle
    /\ RunIdle
    /\ ClientIdle
    /\ PairIdle

Classify ==
    /\ pc = "classify"
    /\ isRetryable' = isRetryableError(error)
    /\ pc' = "classified"
    /\ UNCHANGED <<options, attempt, delay, error, returned, onRetryArg, settled, trace>>
    /\ UNCHANGED <<pollVars, runVars, clientVars, pairVars>>

NextClassify == Classify

SpecClassify == InitClassify /\ [][NextClassify]_vars

----------------------------------------------------------------------------
(* Reading the history *)

Events(kind) == SelectSeq(trace, LAMBDA x : x.ev = kind)

Invocations == Len(Events("invoke"))

Failures == Len(Events("threw"))

ObserverCalls == Events("onRetry")

Sleeps == Events("sleep")

Terminal == pc \in {"resolved", "rejected"}

\* the latest step of the history
LastEvent == IF trace = <<>> THEN "none" ELSE trace[Len(trace)].ev

\* every failure of fn so far was judged retryable
AllFailuresRetryable == \A i \in 1..Len(trace) : trace[i].ev = "threw" => trace[i].retryable = "true"

\* the observer keeps its contract: it does not throw
ObserverReturns == onRetry # "throws"

----------------------------------------------------------------------------
(* Claims about retryWithBackoff *)

\* C1: with maxAttempts = n >= 1 and an operation whose every invocation
\* fails with a retryable error, the executor ends only after exactly n
\* invocations, and it rejects with the very value the n-th invocation threw.
C1_ExhaustionRethrowsLast ==
    (pc = "rejected" /\ maxAttempts >= 1 /\ ObserverReturns /\ AllFailuresRetryable)
        => /\ Invocations = maxAttempts
           /\ Failures = maxAttempts
           /\ trace[Len(trace)].ev = "threw"
           /\ settled = Rejected("fn", error)

\* C1 witness: three attempts, all failed with a retryable error, rejected
C1_Witness ==
    /\ pc = "rejected"
    /\ maxAttempts = 3
    /\ onRetry = "returns"
    /\ AllFailuresRetryable
    /\ Invocations = 3
    /\ settled = Rejected("fn", StatusError(429))

\* C2: when attempts 1..k-1 fail with a retryable error and attempt k
\* (k <= maxAttempts) succeeds, the executor resolves with exactly that value
\* after exactly k invocations, and the observer has been called exactly k-1
\* times, with attempt fields 1, 2, ..., k-1 in that order.  The executor
\* never gives up after a retryable failure while attempts remain.
C2_SuccessOnKth ==
    /\ (pc = "resolved" /\ ObserverReturns)
          => /\ settled = Resolved(returned)
             /\ Invocations = Failures + 1
             /\ Invocations <= maxAttempts
             /\ trace[Len(trace)].ev = "returned"
             /\ onRetry = "returns" =>
                   /\ Len(ObserverCalls) = Invocations - 1
                   /\ \A i \in 1..Len(ObserverCalls) : ObserverCalls[i].attempt = i
    /\ (pc = "rejected" /\ ObserverReturns /\ AllFailuresRetryable /\ Failures >= 1)
          => Invocations >= maxAttempts

\* C2 witness: success on the third and last allowed attempt
C2_Witness ==
    /\ pc = "resolved"
    /\ maxAttempts = 3
    /\ onRetry = "returns"
    /\ Invocations = 3
    /\ Len(ObserverCalls) = 2
    /\ settled = Resolved("other")

\* C3: the first failure the classifier judges non-retryable ends the
\* sequence at once: it is the last step of the history (no observer call, no
\* sleep, no invocation follows it) and the executor has rejected; when it
\* is the first attempt's failure there was exactly 1 invocation.
C3_NonRetryableStops ==
    \A i \in 1..Len(trace) :
        (trace[i].ev = "threw" /\ trace[i].retryable = "false")
            => /\ i = Len(trace)
               /\ pc = "rejected"
               /\ settled = Rejected("fn", error)
               /\ Invocations = trace[i].attempt
               /\ (i = 2 => Invocations = 1)

\* C3 witness: twelve attempts allowed, a 404 on the first one, rejected
C3_Witness ==
    /\ maxAttempts = 12
    /\ pc = "rejected"
    /\ Invocations = 1
    /\ error = StatusError(404)
    /\ trace[Len(trace)].retryable = "false"
    /\ Sleeps = <<>>
    /\ ObserverCalls = <<>>

\* the configuration keeps the data model: maxAttempts positive, factor >= 1,
\* 0 <= initialDelay <= maxDelay
ConfigInDataModel ==
    /\ maxAttempts >= 1
    /\ RLeq(RInt(1), factor)
    /\ RLeq(RInt(0), initialDelay)
    /\ RLeq(initialDelay, maxDelay)

\* C4: whenever the executor rejects, the rejection value is the very value
\* the last invocation of the operation threw, and whenever it resolves, the
\* result is the operation's result.  Stated here for configurations of the
\* data model whose observer does not throw; it fails when the operation
\* throws null, undefined or an error whose message is not a string: the
\* classifier then throws a TypeError, and that is what the executor rejects
\* with.
C4_OutcomeUnmodified ==
    (ConfigInDataModel /\ ObserverReturns)
        => /\ pc = "rejected" => settled = Rejected("fn", error)
           /\ pc = "resolved" => settled = Resolved(returned)

\* C5: the attempt counter equals the number of invocations made so far, the
\* invocations carry the attempt numbers 1, 2, 3, ... (one more per loop
\* iteration), and the counter never exceeds maxAttempts.
C5_AttemptCounter ==
    /\ attempt = Invocations
    /\ attempt <= maxAttempts
    /\ \A i \in 1..Invocations : Events("invoke")[i].attempt = i

\* C5 witness: all twelve default attempts used up
C5_Witness ==
    /\ options.maxAttempts = Absent
    /\ pc = "rejected"
    /\ attempt = 12
    /\ Invocations = 12

\* a sequence of delays is non-decreasing and bounded by maxDelay
NonDecreasingBounded(seq) ==
    /\ \A i \in 1..Len(seq) : RLeq(seq[i].delay, maxDelay)
    /\ \A i \in 1..(Len(seq) - 1) : RLeq(seq[i].delay, seq[i + 1].delay)

\* C6: for every configuration of the data model (factor >= 1,
\* 0 <= initialDelay <= maxDelay) the delays slept, and the delays reported
\* to the observer, are non-decreasing and each is at most maxDelay.
C6_DelaysMonotoneBounded ==
    (RLeq(RInt(1), factor) /\ RLeq(RInt(0), initialDelay) /\ RLeq(initialDelay, maxDelay))
        => /\ NonDecreasingBounded(Sleeps)
           /\ NonDecreasingBounded(ObserverCalls)

\* C6 witness: the delays grew and then hit the clamp: 10, 20, 20
C6_Witness ==
    /\ RLeq(RInt(1), factor) /\ RLeq(initialDelay, maxDelay)
    /\ Len(Sleeps) >= 3
    /\ Len(ObserverCalls) >= 3
    /\ Sleeps[1].delay = RInt(10)
    /\ Sleeps[2].delay = RInt(20)
    /\ Sleeps[3].delay = RInt(20)
    /\ maxDelay = RInt(20)

\* the delays 10000 * 1.5^i clamped at 120000, written out
DefaultSchedule ==
    <<RInt(10000), RInt(15000), RInt(22500), RInt(33750), RInt(50625),
      Rat(151875, 2), Rat(455625, 4), RInt(120000), RInt(120000), RInt(120000),
      RInt(120000)>>

\* C7: the delays are deterministic: the first delay slept is initialDelay and
\* each next one is min(previous * factor, maxDelay); with initialDelay 10000,
\* factor 1.5 and maxDelay 120000 they are 10000, 15000, 22500, 33750, 50625,
\* 75937.5, 113906.25 and 120000 from the eighth on (170859.375 would exceed
\* the maximum).
C7_DelaySchedule ==
    /\ Len(Sleeps) >= 1 => Sleeps[1].delay = initialDelay
    /\ \A i \in 1..(Len(Sleeps) - 1) :
          LET scaled == RMul(Sleeps[i].delay, factor)
          IN  Sleeps[i + 1].delay = IF RLeq(scaled, maxDelay) THEN scaled ELSE maxDelay
    /\ (options.initialDelay = Absent /\ options.factor = Absent /\ options.maxDelay = Absent)
          => \A i \in 1..Len(Sleeps) :
                Sleeps[i].delay = IF i <= Len(DefaultSchedule) THEN DefaultSchedule[i]
                                  ELSE RInt(120000)

\* C7 witness: the default schedule past its clamp (seventh delay below the
\* maximum, eighth and ninth at it)
C7_Witness ==
    /\ options.initialDelay = Absent /\ options.factor = Absent /\ options.maxDelay = Absent
    /\ Len(Sleeps) >= 9
    /\ Sleeps[4].delay = RInt(33750)
    /\ RLess(Sleeps[7].delay, RInt(120000))
    /\ Sleeps[8].delay = RInt(120000)
    /\ Sleeps[9].delay = RInt(120000)

\* number of failures of fn that were followed by another invocation
RetriedFailures ==
    Cardinality({i \in 1..Len(trace) :
                    /\ trace[i].ev = "threw"
                    /\ \E j \in (i + 1)..Len(trace) : trace[j].ev = "invoke"})

\* C8: the observer is called exactly once for each failed attempt that is
\* followed by another attempt, directly after that failure, never for the
\* terminal failure and never after a success; there is exactly one sleep
\* per retried failure and none after a success or a terminal failure.
C8_ObserverOncePerRetry ==
    /\ onRetry = "returns" =>
          /\ \A i \in 1..Len(trace) :
                trace[i].ev = "onRetry" => (i > 1 /\ trace[i - 1].ev = "threw")
          /\ \A i \in 1..(Len(trace) - 1) :
                trace[i].ev = "threw" => trace[i + 1].ev = "onRetry"
          /\ Terminal => Len(ObserverCalls) = RetriedFailures
          /\ Terminal => LastEvent \notin {"onRetry", "sleep", "advance"}
    /\ ObserverReturns =>
          /\ \A i \in 1..Len(trace) :
                trace[i].ev = "sleep" => (i > 1 /\ trace[i - 1].ev \in {"threw", "onRetry"})
          /\ \A i \in 1..(Len(trace) - 1) :
                trace[i].ev \in {"threw", "returned"} => trace[i + 1].ev \in {"onRetry", "sleep"}
          /\ \A i \in 1..Len(trace) : trace[i].ev = "returned" => i = Len(trace)
          /\ Terminal => Len(Sleeps) = RetriedFailures
          /\ Terminal => LastEvent \notin {"sleep", "advance"}

\* C8 witness: two retried failures, then the terminal failure: two observer
\* calls and two sleeps for three failures
C8_Witness ==
    /\ onRetry = "returns"
    /\ pc = "rejected"
    /\ Failures = 3
    /\ RetriedFailures = 2
    /\ Len(ObserverCalls) = 2
    /\ Len(Sleeps) = 2

\* C9: on each retried failure the observer is called first, with the number
\* of the attempt that just failed, maxAttempts, the error just caught and
\* the delay before scaling; then the executor sleeps for exactly the delay
\* reported; then the delay is advanced; then the operation is invoked again.
C9_RetryStepOrder ==
    onRetry = "returns" =>
       /\ \A i \in 1..Len(trace) :
             trace[i].ev = "onRetry" =>
                /\ i > 1
                /\ trace[i - 1].ev = "threw"
                /\ trace[i].attempt = trace[i - 1].attempt
                /\ trace[i].delay = trace[i - 1].delay
                /\ i + 1 <= Len(trace) =>
                      (trace[i + 1].ev = "sleep" /\ trace[i + 1].delay = trace[i].delay)
                /\ i + 2 <= Len(trace) => trace[i + 2].ev = "advance"
                /\ i + 3 <= Len(trace) =>
                      (trace[i + 3].ev = "invoke" /\ trace[i + 3].attempt = trace[i].attempt + 1)
       /\ pc = "sleeping" =>
             /\ onRetryArg = [attempt |-> attempt, maxAttempts |-> maxAttempts,
                              delay |-> delay, error |-> error]
             /\ trace[Len(trace)].ev = "sleep"
             /\ trace[Len(trace)].delay = onRetryArg.delay
             /\ trace[Len(trace) - 2].attempt = onRetryArg.attempt

\* C9 witness: the second retry of a run whose delay grows: the observer was
\* told attempt 2 and delay 20 after delay 10 was scaled, and the executor
\* sleeps 20
C9_Witness ==
    /\ onRetry = "returns"
    /\ pc = "sleeping"
    /\ factor = RInt(2)
    /\ onRetryArg = [attempt |-> 2, maxAttempts |-> 12, delay |-> RInt(20),
                     error |-> CodeError("ECONNRESET")]
    /\ trace[Len(trace)] = Event("sleep", 2, RInt(20), "")
    /\ Sleeps[1].delay = RInt(10)

----------------------------------------------------------------------------
(* Claims about isRetryableError, checked under SpecClassify *)

\* the error carries an HTTP status code (a number from 100 up; 0 is none)
CarriesHttpStatus(e) == e.kind = "object" /\ e.hasStatus /\ e.status >= 100

\* C10: for every error carrying an HTTP status code the verdict is true
\* exactly when the status is 408, 429, 500, 502, 503 or 504, whatever
\* network code or message the error also carries.
C10_StatusDecides ==
    (pc = "classified" /\ CarriesHttpStatus(error))
        => /\ isRetryable \in {"true", "false"}
           /\ isRetryable = "true" <=> error.status \in {408, 429, 500, 502, 503, 504}

\* C10 witness: status 404 with code ECONNRESET and a throttling message,
\* judged not retryable
C10_Witness ==
    /\ pc = "classified"
    /\ error = ErrorValue("object", TRUE, 404, TRUE, "ECONNRESET", "string", "Throttling detected")
    /\ isRetryable = "false"

\* the messages of MessageChoices that contain "Throttling", "TooManyRequests"
\* or "Rate limit" with that spelling, listed by hand
MarkedMessages ==
    {"Throttling detected", "TooManyRequests", "Rate limit exceeded", "Request Throttling"}

C12_MessageDecides ==
    (pc = "classified" /\ ~error.hasStatus /\ ~error.hasCode)
        => /\ isRetryable = "true"
                 <=> (error.msgKind = "string" /\ error.message \in MarkedMessages)
           /\ (/\ error.kind \in {"object", "primitive"}
               /\ error.msgKind \in {"string", "undefined"}
               /\ error.message \notin MarkedMessages) => isRetryable = "false"

\* C12 witness: a mark in the middle of the message is found
C12_Witness ==
    /\ pc = "classified"
    /\ error = MessageError("Request Throttling")
    /\ isRetryable = "true"

\* C13: the classifier is total: for every input value it returns a boolean
\* and never throws.  Violated by null, undefined and by an object whose
\* message is a number.
C13_Total ==
    pc = "classified" => isRetryable \in {"true", "false"}

----------------------------------------------------------------------------
(* The operation poller: getOperationStatus and waitForOperation,          *)
(* cdn-client.js:198-298.  The clock advances while the poller awaits: a   *)
(* status check takes some time, a timer fires no earlier than asked.      *)

MaxTimeoutSeconds == 11

pollInterval == 5000

OperationIdChoices == {"op-a", "op-b", ""}

TimeoutChoices == {0, 1, 6, MaxTimeoutSeconds}

StartChoices == {0, 3000}

\* how long a status check may take, how late the timer may fire (ms)
StatusDurations == {0, 2000}

WakeLateness == {0, 1000}

ProgressChoices == {Undefined, Num(0), Num(50), Num(60)}

ErrorCodeChoices == {Undefined, Num(0), Num(3), Str("X")}

ErrorMessageChoices == {Undefined, Str(""), Str("Y")}

\* replies that leave the job pending: done false (or missing)
PendingReplies ==
    {OperationRecord("false", FALSE, Undefined, Undefined, p) : p \in ProgressChoices}
        \cup {OperationRecord("absent", FALSE, Undefined, Undefined, Undefined)}

\* replies with done true, without and with an error
DoneReplies ==
    {OperationRecord("true", FALSE, Undefined, Undefined, p) : p \in {Undefined, Num(60)}}
        \cup {OperationRecord("true", TRUE, c, m, Undefined) :
                 c \in ErrorCodeChoices, m \in ErrorMessageChoices}

ReplyChoices == PendingReplies \cup DoneReplies

\* a rejected GET: with a response (status, data.message, statusText) or
\* without one (message)
HttpFailure(hasResponse, status, dataMessage, statusText, message) ==
    [hasResponse |-> hasResponse, status |-> status, dataMessage |-> dataMessage,
     statusText |-> statusText, message |-> message]

HttpFailureChoices ==
    {HttpFailure(TRUE, 404, Undefined, "Not Found", "Request failed with status code 404"),
     HttpFailure(TRUE, 401, Undefined, "Unauthorized", "Request failed with status code 401"),
     HttpFailure(TRUE, 503, Undefined, "Service Unavailable", "Request failed with status code 503"),
     HttpFailure(TRUE, 500, Str("backend down"), "Internal Server Error",
                 "Request failed with status code 500"),
     HttpFailure(FALSE, 0, Undefined, "", "socket hang up")}

PollEvent(ev, done, progress) == [ev |-> ev, at |-> now, done |-> done, progress |-> progress]

PollReturned(op) == [state |-> "returned", kind |-> "none", message |-> "", operation |-> op]

PollThrown(kind, message) ==
    [state |-> "thrown", kind |-> kind, message |-> message, operation |-> NoOperation]

\* cdn-client.js:199  !operationId || typeof operationId !== 'string'
OperationIdInvalid == operationId = ""

\* cdn-client.js:213-231  the error getOperationStatus throws for a rejected GET
StatusFailureMessage(f) ==
    IF f.hasResponse
    THEN IF f.status = 404 THEN "Operation not found: " \o operationId
         ELSE IF f.status = 401 THEN "Authentication failed when checking operation status"
         ELSE "Failed to get operation status: " \o ToString(f.status) \o " - "
                  \o Text(OrElse(f.dataMessage, Str(f.statusText)))
    ELSE "Failed to get operation status: " \o f.message

\* cdn-client.js:208-210, caught at 213 and rethrown at 231
NoDataMessage == "Failed to get operation status: " \o "Invalid response from Operations API"

\* cdn-client.js:244
timeoutMs == timeoutSeconds * 1000

\* Faulty variant: the start time is not subtracted
elapsedSinceEpoch == now

\* cdn-client.js:255
elapsed == now - startTime

\* Faulty variant: the deadline is tested with > instead of >=
DeadlinePassedStrict == elapsed > timeoutMs

\* cdn-client.js:257
DeadlinePassed == elapsed >= timeoutMs

\* Faulty variant: the timeout text leaves the operation unnamed
TimeoutMessageNoId ==
    "Operation timeout after " \o ToString(timeoutSeconds) \o " seconds. "
        \o "Cache purge may still complete in the background."

\* cdn-client.js:258-262
TimeoutMessage ==
    "Operation timeout after " \o ToString(timeoutSeconds) \o " seconds. "
        \o "Operation ID: " \o operationId \o ". "
        \o "Cache purge may still complete in the background."

\* Faulty variant: the message is taken for the code
OperationFailedMessageSwapped(op) ==
    "Operation failed: " \o Text(OrElse(op.message, Str("No error message")))
        \o " (code: " \o Text(OrElse(op.message, Str("UNKNOWN"))) \o "). "
        \o "Operation ID: " \o operationId

\* cdn-client.js:270-275
OperationFailedMessage(op) ==
    "Operation failed: " \o Text(OrElse(op.message, Str("No error message")))
        \o " (code: " \o Text(OrElse(op.code, Str("UNKNOWN"))) \o "). "
        \o "Operation ID: " \o operationId

\* Faulty variant: a done operation is returned without looking at its error
OperationFailedNever(op) == FALSE

\* cdn-client.js:269
OperationFailed(op) == op.hasError

\* Faulty variant: every truthy progress is announced
ProgressChangedAlways(op) == Truthy(op.progress)

\* cdn-client.js:286
ProgressChanged(op) == Truthy(op.progress) /\ op.progress # lastProgress

RetryIdle ==
    /\ options = DefaultOptions
    /\ pc = "idle"
    /\ attempt = 0
    /\ delay = initialDelay
    /\ error = NoError
    /\ isRetryable = "unset"
    /\ returned = NoValue
    /\ onRetryArg = NoRecord
    /\ settled = Pending
    /\ trace = <<>>

\* waitForOperation entered: cdn-client.js:243-252
InitPoll ==
    /\ RetryIdle
    /\ RunIdle
    /\ ClientIdle
    /\ PairIdle
    /\ operationId \in OperationIdChoices
    /\ timeoutSeconds \in TimeoutChoices
    /\ now \in StartChoices
    /\ startTime = now
    /\ lastProgress = Undefined
    /\ pollPc = "top"
    /\ operation = NoOperation
    /\ pollResult = PollPending
    /\ pollTrace = <<>>

\* top of the loop, deadline passed: cdn-client.js:255-263
PollTimeout ==
    /\ pollPc = "top"
    /\ DeadlinePassed
    /\ pollPc' = "thrown"
    /\ pollResult' = PollThrown("timeout", TimeoutMessage)
    /\ pollTrace' = Append(pollTrace, PollEvent("timeout", "", Undefined))
    /\ UNCHANGED <<operationId, timeoutSeconds, now, startTime, lastProgress, operation>>
    /\ UNCHANGED <<retryVars, runVars, clientVars, pairVars>>

\* top of the loop, deadline not passed: getOperationStatus is called
\* (cdn-client.js:265, 198-206); an invalid id fails before any request
PollCheck ==
    /\ pollPc = "top"
    /\ ~DeadlinePassed
    /\ IF OperationIdInvalid
       THEN /\ pollPc' = "thrown"
            /\ pollResult' = PollThrown("statusCheck", "Operation ID is required and must be a string")
            /\ pollTrace' = Append(Append(pollTrace, PollEvent("check", "", Undefined)),
                                   PollEvent("failure", "", Undefined))
       ELSE /\ pollPc' = "awaitStatus"
            /\ UNCHANGED pollResult
            /\ pollTrace' = Append(pollTrace, PollEvent("check", "", Undefined))
    /\ UNCHANGED <<operationId, timeoutSeconds, now, startTime, lastProgress, operation>>
    /\ UNCHANGED <<retryVars, runVars, clientVars, pairVars>>

\* Faulty variant: the deadline is tested again when the reply arrives
StatusRepliesInTime(op, took) ==
    /\ pollPc = "awaitStatus"
    /\ now' = now + took
    /\ operation' = op
    /\ LET reply == [ev |-> "reply", at |-> now', done |-> op.done, progress |-> op.progress]
           seen  == Append(pollTrace, reply)
       IN  IF now' - startTime >= timeoutMs
           THEN /\ pollPc' = "thrown"
                /\ pollResult' = PollThrown("timeout", TimeoutMessage)
                /\ pollTrace' = Append(seen, [ev |-> "timeout", at |-> now', done |-> "", progress |-> Undefined])
           ELSE IF op.done = "true"
           THEN /\ pollPc' = IF OperationFailed(op) THEN "thrown" ELSE "returned"
                /\ pollResult' = IF OperationFailed(op)
                                 THEN PollThrown("operationFailed", OperationFailedMessage(op))
                                 ELSE PollReturned(op)
                /\ pollTrace' = seen
           ELSE /\ pollPc' = "sleeping"
                /\ UNCHANGED pollResult
                /\ pollTrace' = Append(Append(seen,
                       [ev |-> "generic", at |-> now', done |-> "", progress |-> Undefined]),
                       [ev |-> "sleep", at |-> now', done |-> "", progress |-> Undefined])
    /\ UNCHANGED <<operationId, timeoutSeconds, startTime, lastProgress>>
    /\ UNCHANGED <<retryVars, runVars, clientVars, pairVars>>

\* the GET resolves with a status record: cdn-client.js:212, 265-296
StatusReplies(op, took) ==
    /\ pollPc = "awaitStatus"
    /\ now' = now + took
    /\ operation' = op
    /\ LET reply == [ev |-> "reply", at |-> now', done |-> op.done, progress |-> op.progress]
           seen  == Append(pollTrace, reply)
       IN  IF op.done = "true"
           THEN /\ IF OperationFailed(op)
                   THEN /\ pollPc' = "thrown"
                        /\ pollResult' = PollThrown("operationFailed", OperationFailedMessage(op))
                   ELSE /\ pollPc' = "returned"
                        /\ pollResult' = PollReturned(op)
                /\ pollTrace' = seen
                /\ UNCHANGED lastProgress
           ELSE /\ pollPc' = "sleeping"
                /\ UNCHANGED pollResult
                /\ IF ProgressChanged(op)
                   THEN /\ lastProgress' = op.progress
                        /\ pollTrace' = Append(Append(seen,
                               [ev |-> "progress", at |-> now', done |-> "", progress |-> op.progress]),
                               [ev |-> "sleep", at |-> now', done |-> "", progress |-> Undefined])
                   ELSE /\ UNCHANGED lastProgress
                        /\ pollTrace' = Append(Append(seen,
                               [ev |-> "generic", at |-> now', done |-> "", progress |-> Undefined]),
                               [ev |-> "sleep", at |-> now', done |-> "", progress |-> Undefined])
    /\ UNCHANGED <<operationId, timeoutSeconds, startTime>>
    /\ UNCHANGED <<retryVars, runVars, clientVars, pairVars>>

\* the GET resolves without data: cdn-client.js:208-210, 231
StatusNoData(took) ==
    /\ pollPc = "awaitStatus"
    /\ now' = now + took
    /\ pollPc' = "thrown"
    /\ pollResult' = PollThrown("statusCheck", NoDataMessage)
    /\ pollTrace' = Append(pollTrace, [ev |-> "failure", at |-> now', done |-> "", progress |-> Undefined])
    /\ UNCHANGED <<operationId, timeoutSeconds, startTime, lastProgress, operation>>
    /\ UNCHANGED <<retryVars, runVars, clientVars, pairVars>>

\* Faulty variant: a failed status check is followed by the sleep and another check
StatusFailsRetried(f, took) ==
    /\ pollPc = "awaitStatus"
    /\ now' = now + took
    /\ pollPc' = "sleeping"
    /\ pollTrace' = Append(pollTrace, [ev |-> "failure", at |-> now', done |-> "", progress |-> Undefined])
    /\ UNCHANGED <<operationId, timeoutSeconds, startTime, lastProgress, operation, pollResult>>
    /\ UNCHANGED <<retryVars, runVars, clientVars, pairVars>>

\* the GET rejects: cdn-client.js:213-231
StatusFails(f, took) ==
    /\ pollPc = "awaitStatus"
    /\ now' = now + took
    /\ pollPc' = "thrown"
    /\ pollResult' = PollThrown("statusCheck", StatusFailureMessage(f))
    /\ pollTrace' = Append(pollTrace, [ev |-> "failure", at |-> now', done |-> "", progress |-> Undefined])
    /\ UNCHANGED <<operationId, timeoutSeconds, startTime, lastProgress, operation>>
    /\ UNCHANGED <<retryVars, runVars, clientVars, pairVars>>

\* the poll-interval timer fires: cdn-client.js:296
PollWake(late) ==
    /\ pollPc = "sleeping"
    /\ now' = now + pollInterval + late
    /\ pollPc' = "top"
    /\ pollTrace' = Append(pollTrace, [ev |-> "wake", at |-> now', done |-> "", progress |-> Undefined])
    /\ UNCHANGED <<operationId, timeoutSeconds, startTime, lastProgress, operation, pollResult>>
    /\ UNCHANGED <<retryVars, runVars, clientVars, pairVars>>

NextPoll ==
    \/ PollTimeout
    \/ PollCheck
    \/ \E op \in ReplyChoices, took \in StatusDurations : StatusReplies(op, took)
    \/ \E took \in StatusDurations : StatusNoData(took)
    \/ \E f \in HttpFailureChoices, took \in StatusDurations : StatusFails(f, took)
    \/ \E late \in WakeLateness : PollWake(late)

SpecPoll == InitPoll /\ [][NextPoll]_vars

\* every await of the poller settles: the status check answers, the timer fires
SpecPollFair == SpecPoll /\ WF_vars(NextPoll)

----------------------------------------------------------------------------
(* Reading the poller's history *)

PollEvents(kind) == SelectSeq(pollTrace, LAMBDA x : x.ev = kind)

Checks == Len(PollEvents("check"))

Replies == PollEvents("reply")

PollSleeps == PollEvents("sleep")

Wakes == PollEvents("wake")

\* what the poller told the user per pending iteration: the percentage or not
Notes == SelectSeq(pollTrace, LAMBDA x : x.ev \in {"progress", "generic"})

PollTerminal == pollPc \in {"returned", "thrown"}

LastPollEvent == IF pollTrace = <<>> THEN "none" ELSE pollTrace[Len(pollTrace)].ev

\* a step of the history that ends the call
EndsPolling(x) == x.ev \in {"timeout", "failure"} \/ (x.ev = "reply" /\ x.done = "true")

\* every status check so far was answered, and answered "not done"
AllRepliesPending ==
    /\ PollEvents("failure") = <<>>
    /\ Len(Replies) = Checks
    /\ \A i \in 1..Len(Replies) : Replies[i].done # "true"

----------------------------------------------------------------------------
(* Claims about waitForOperation, checked under SpecPoll *)

\* C14 as stated: every call ends in exactly one of DONE (the operation is
\* returned), FAILED (the operation was reported done with an error) or
\* TIMED_OUT.  Violated: a failed status check ends the call with its own
\* error, which is none of the three.
C14_ThreeOutcomes ==
    (PollTerminal /\ operationId # "") =>
        \/ pollResult.state = "returned"
        \/ pollResult.state = "thrown" /\ pollResult.kind \in {"operationFailed", "timeout"}

\* C14 amended: every call starts pending and ends in exactly one of DONE,
\* FAILED, TIMED_OUT or ABORTED (a status check failed); the step that ends
\* it is the last step of the history (no status check, sleep or
\* notification follows), and an operation reported done with an error is
\* never returned as a success.
C14_Outcomes ==
    /\ pollTrace = <<>> => (pollPc = "top" /\ pollResult = PollPending)
    /\ ~PollTerminal => pollResult = PollPending
    /\ \A i \in 1..Len(pollTrace) : EndsPolling(pollTrace[i]) => (i = Len(pollTrace) /\ PollTerminal)
    /\ PollTerminal =>
          CASE pollResult.state = "returned" ->
                  /\ pollPc = "returned"
                  /\ LastPollEvent = "reply"
                  /\ operation.done = "true"
                  /\ ~operation.hasError
                  /\ pollResult = PollReturned(operation)
            [] pollResult.state = "thrown" /\ pollResult.kind = "operationFailed" ->
                  /\ pollPc = "thrown"
                  /\ LastPollEvent = "reply"
                  /\ operation.done = "true"
                  /\ operation.hasError
            [] pollResult.state = "thrown" /\ pollResult.kind = "timeout" ->
                  /\ pollPc = "thrown"
                  /\ LastPollEvent = "timeout"
            [] pollResult.state = "thrown" /\ pollResult.kind = "statusCheck" ->
                  /\ pollPc = "thrown"
                  /\ LastPollEvent = "failure"
            [] OTHER -> FALSE

\* C14 witness: after one pending iteration the job reports done with an
\* error, and the call has failed
C14_Witness ==
    /\ pollPc = "thrown"
    /\ pollResult.kind = "operationFailed"
    /\ Checks = 2
    /\ operation = OperationRecord("true", TRUE, Str("X"), Str("Y"), Undefined)

\* the shape of a successful wait: m pending replies, then done
ReturnedAfterPending ==
    LET m == Len(Replies) - 1
    IN  /\ Checks = m + 1
        /\ \A i \in 1..m : Replies[i].done # "true"
        /\ Replies[m + 1] = [ev |-> "reply", at |-> now, done |-> "true",
                             progress |-> operation.progress]
        /\ pollResult = PollReturned(operation)
        /\ Len(PollSleeps) = m
        /\ Len(Wakes) = m
        /\ \A i \in 1..m : Wakes[i].at - PollSleeps[i].at >= 5000
        /\ LastPollEvent = "reply"
        \* check, reply, note, sleep, wake per pending iteration; check, reply at the end
        /\ Len(pollTrace) = 5 * m + 2
        /\ \A i \in 0..m : pollTrace[5 * i + 1].ev = "check" /\ pollTrace[5 * i + 2].ev = "reply"
        /\ \A i \in 0..(m - 1) : pollTrace[5 * i + 4].ev = "sleep" /\ pollTrace[5 * i + 5].ev = "wake"

\* C15 as stated: whenever m * 5000 ms is below the timeout, a job that is
\* pending for m checks and done on check m+1 is waited for to the end, so
\* the call never times out after m pending replies with m * 5000 < timeout.
\* Violated: with a timeout of 6 s, a first check that takes 2 s and the 5 s
\* sleep bring the elapsed time to 7 s, and the call times out after one
\* pending reply.
C15_ReturnsWithinBudget ==
    /\ pollResult.state = "returned" => ReturnedAfterPending
    /\ (pollResult.kind = "timeout" /\ AllRepliesPending) => Checks * 5000 >= timeoutSeconds * 1000

\* C15 amended: a job pending for m checks and done without error on check
\* m+1 makes the call return that final record after exactly m+1 checks,
\* with exactly one sleep of the poll interval between two consecutive
\* checks and none after the last, provided the elapsed time at the top of
\* each of these iterations is below the timeout; m * 5000 ms below the
\* timeout guarantees that when the clock advances only by the sleeps, by
\* exactly 5000 ms each.
C15_ReturnsWhileBeforeDeadline ==
    /\ pollResult.state = "returned" => ReturnedAfterPending
    /\ (pollResult.kind = "timeout" /\ AllRepliesPending)
          => /\ now - startTime >= timeoutSeconds * 1000
             /\ (now - startTime = 5000 * Len(Wakes)) => Checks * 5000 >= timeoutSeconds * 1000
    /\ (PollTerminal /\ AllRepliesPending) => pollResult.kind = "timeout"

\* C15 witness: the scenario of the specification, on time: two pending
\* replies, done on the third check, 10 s into an 11 s timeout
C15_Witness ==
    /\ pollPc = "returned"
    /\ timeoutSeconds = MaxTimeoutSeconds
    /\ Checks = 3
    /\ Len(PollSleeps) = 2
    /\ now - startTime = 10000
    /\ startTime = 3000
    /\ pollResult.operation = OperationRecord("true", FALSE, Undefined, Undefined, Num(60))

\* C16: with timeoutSeconds >= 1 and a job that always answers "not
\* done", the call ends (every await settles), and it ends with the timeout
\* error, whose text names the operation id; at least one status check was
\* made, and the iteration that raised the timeout made none (the timeout
\* follows the timer directly).  Checked under SpecPollFair.
C16_TimesOut ==
    /\ <>PollTerminal
    /\ [](  (PollTerminal /\ timeoutSeconds >= 1 /\ AllRepliesPending)
              => /\ pollResult.state = "thrown"
                 /\ pollResult.kind = "timeout"
                 /\ Includes(pollResult.message, operationId)
                 /\ Includes(pollResult.message, "Operation ID: " \o operationId \o ".")
                 /\ Checks >= 1
                 /\ Len(pollTrace) >= 2
                 /\ pollTrace[Len(pollTrace)].ev = "timeout"
                 /\ pollTrace[Len(pollTrace) - 1].ev = "wake" )

\* C16 witness: timeoutSeconds = 1, one pending reply, then the timeout
\* naming op-b
C16_Witness ==
    /\ timeoutSeconds = 1
    /\ operationId = "op-b"
    /\ pollPc = "thrown"
    /\ AllRepliesPending
    /\ Checks = 1
    /\ pollResult.message =
          "Operation timeout after 1 seconds. Operation ID: op-b. Cache purge may still complete in the background."

\* C17 as stated: a reply with done true and an error {code, message} makes
\* the call fail with a text that embeds the code and the message as
\* reported, whatever their values.  Violated: code 0 is reported as UNKNOWN.
C17_EmbedsCodeAndMessage ==
    (pollResult.kind = "operationFailed" /\ operation.code # Undefined /\ operation.message # Undefined)
        => /\ Includes(pollResult.message, Text(operation.code))
           /\ Includes(pollResult.message, Text(operation.message))

\* C17 amended: a reply with done true and an error present makes the call
\* fail with a text that embeds the provider's code and message when they
\* are truthy; a code that is missing, 0 or "" is reported as UNKNOWN and a
\* message that is missing or "" as "No error message".
C17_EmbedsTruthyCodeAndMessage ==
    pollResult.kind = "operationFailed" =>
        LET c == operation.code
            m == operation.message
            codeText == IF c \in {Undefined, Num(0), Str("")} THEN "UNKNOWN"
                        ELSE IF c.t = "num" THEN ToString(c.n) ELSE c.s
            msgText  == IF m \in {Undefined, Num(0), Str("")} THEN "No error message"
                        ELSE IF m.t = "num" THEN ToString(m.n) ELSE m.s
        IN  /\ operation.done = "true"
            /\ operation.hasError
            /\ pollResult.state = "thrown"
            /\ Includes(pollResult.message, "(code: " \o codeText \o ")")
            /\ Includes(pollResult.message, "Operation failed: " \o msgText \o " (code")

\* C17 witness: the scenario of the specification, code "X" and message "Y"
C17_Witness ==
    /\ pollPc = "thrown"
    /\ operation = OperationRecord("true", TRUE, Str("X"), Str("Y"), Undefined)
    /\ operationId = "op-a"
    /\ pollResult.message = "Operation failed: Y (code: X). Operation ID: op-a"

\* C18: a failed status check, retryable or not, ends the call at once: it is
\* the last step of the history (no sleep and no further check follow), and
\* the call has thrown the error of getOperationStatus.
C18_StatusFailureAborts ==
    \A i \in 1..Len(pollTrace) :
        pollTrace[i].ev = "failure"
            => /\ i = Len(pollTrace)
               /\ pollTrace[i - 1].ev = "check"
               /\ pollPc = "thrown"
               /\ pollResult.state = "thrown"
               /\ pollResult.kind = "statusCheck"
               /\ Len(PollSleeps) = Checks - 1

\* C18 witness: a 503, which the classifier would retry, on the second check
C18_Witness ==
    /\ pollPc = "thrown"
    /\ Checks = 2
    /\ LastPollEvent = "failure"
    /\ pollResult.message = "Failed to get operation status: 503 - Service Unavailable"
    /\ isRetryableError(StatusError(503)) = "true"

\* C19: a notification carrying the percentage is emitted in an iteration
\* only when the reported progress differs from that of the previous
\* iteration, it carries the value just reported, and the same value is
\* never notified in two consecutive iterations.
C19_ProgressOnlyOnChange ==
    /\ Len(Notes) <= Len(Replies)
    /\ \A i \in 1..Len(Notes) :
          Notes[i].ev = "progress" =>
             /\ Notes[i].progress = Replies[i].progress
             /\ Notes[i].progress \notin {Undefined, Num(0)}
             /\ i > 1 => Replies[i - 1].progress # Replies[i].progress
             /\ (i > 1 /\ Notes[i - 1].ev = "progress") => Notes[i - 1].progress # Notes[i].progress

\* C19 witness: progress 50, 50, 60: notified, not notified, notified
C19_Witness ==
    /\ Len(Notes) = 3
    /\ Replies[1].progress = Num(50) /\ Notes[1].ev = "progress"
    /\ Replies[2].progress = Num(50) /\ Notes[2].ev = "generic"
    /\ Replies[3].progress = Num(60) /\ Notes[3].ev = "progress"

----------------------------------------------------------------------------
(* run(), index.js:60-177.  The function logs its banner, calls
   core.setFailed('test') and returns (index.js:61-63); the try block below
   the return statement is never entered, so no input is read and no call
   is made on the client. *)

\* values the workflow may give to the inputs (README.md, table of inputs)
ResourceIdChoices == {"", "bc8rabcdefgh12345678"}
ResourceCnameChoices == {"", "cdn.example.com"}
FolderIdChoices == {"", "b1gfolder"}
SkipNotFoundChoices == {"", "true"}
PathsChoices == {"", "/images/*", "/images/*,/css/*"}
WaitChoices == {"", "true", "false"}
TimeoutInputChoices == {"", "900", "1"}

InputChoices ==
    [resourceId : ResourceIdChoices, resourceCname : ResourceCnameChoices,
     folderId : FolderIdChoices, skipNotFound : SkipNotFoundChoices,
     paths : PathsChoices, wait : WaitChoices, timeout : TimeoutInputChoices]

\* a call made by run() on core or on the client
RunCall(fn, arg) == [fn |-> fn, arg |-> arg]

\* index.js:181-183: the module calls run() once
InitRun ==
    /\ inputs \in InputChoices
    /\ runPc = "called"
    /\ failed = <<>>
    /\ runCalls = <<>>
    /\ RetryIdle
    /\ PollIdle
    /\ ClientIdle
    /\ PairIdle

\* index.js:61-63
Run ==
    /\ runPc = "called"
    /\ runCalls' = runCalls \o << RunCall("core.info", "Yandex CDN Invalidator!"),
                                 RunCall("core.setFailed", "test") >>
    /\ failed' = Append(failed, "test")
    /\ runPc' = "returned"
    /\ UNCHANGED inputs
    /\ UNCHANGED <<retryVars, pollVars, clientVars, pairVars>>

NextRun == Run

SpecRun == InitRun /\ [][NextRun]_vars

\* the workflow asks to wait: index.js:76 reads wait as getInput('wait') === 'true'
\* (README.md:81 documents 'true' as the value given when the workflow is silent)
WaitEnabled == inputs.wait = "true"

\* inputs that pass the validation written at index.js:80-106: exactly one of
\* resource-id and resource-cname, a folder with the cname, a positive timeout;
\* empty paths ask for a full purge
PurgeRequested ==
    /\ (inputs.resourceId # "") # (inputs.resourceCname # "")
    /\ inputs.resourceCname # "" => inputs.folderId # ""
    /\ inputs.timeout \in {"900", "1"}

\* C20: when the wait option is enabled, a run asked to purge initiates the
\* purge, then calls waitForOperation on the returned operation id, and does
\* not end before the operation was polled; success is reported only after
\* that.  Violated: run() ends after core.setFailed('test') without having
\* initiated a purge or polled anything.
C20_RunWaitsForOperation ==
    (runPc = "returned" /\ WaitEnabled /\ PurgeRequested)
        => \E i, j \in 1..Len(runCalls) :
              /\ i < j
              /\ runCalls[i].fn = "client.purgeCache"
              /\ runCalls[j].fn = "client.waitForOperation"

\* C21: run() signals failure exactly when one of its steps raised an
\* error; with valid inputs and no failing provider call, a run authenticates,
\* requests the purge and ends without a failure signal.  Violated: run()
\* signals the failure 'test' on every run, and calls nothing on the client.
C21_FailsOnlyOnError ==
    (runPc = "returned" /\ PurgeRequested)
        => /\ failed = <<>>
           /\ \E i \in 1..Len(runCalls) : runCalls[i].fn = "client.authenticate"
           /\ \E i \in 1..Len(runCalls) : runCalls[i].fn = "client.purgeCache"

----------------------------------------------------------------------------
(* Termination of retryWithBackoff, checked under SpecFair *)

\* the ways an execution has ended
StoppedBySuccess == settled.state = "resolved"

StoppedByExhaustion ==
    settled.state = "rejected" /\ settled.origin = "fn" /\ isRetryable = "true" /\ attempt >= maxAttempts

StoppedByNonRetryable ==
    settled.state = "rejected" /\ settled.origin = "fn" /\ isRetryable = "false"

----------------------------------------------------------------------------
(* Termination and deadline of waitForOperation *)

\* ceil(timeoutMs / pollInterval)
MaxChecks == (timeoutMs + pollInterval - 1) \div pollInterval

\* C23: when every status check settles and every sleep lasts at least the
\* poll interval, every call ends (returns or fails), whatever the provider
\* reports, and it makes at most ceil(timeoutSeconds * 1000 / 5000) status
\* checks.  Checked under SpecPollFair.
C23_PollTerminates ==
    /\ <>PollTerminal
    /\ [](Checks <= MaxChecks)
    /\ [](PollTerminal => pollResult.state \in {"returned", "thrown"})

\* C23 witness: the bound is met: a call that timed out after
\* ceil(timeout / 5 s) = 3 checks
C23_Witness ==
    /\ pollPc = "thrown"
    /\ pollResult.kind = "timeout"
    /\ timeoutSeconds = MaxTimeoutSeconds
    /\ Checks = MaxChecks
    /\ Checks = 3

\* C27: the deadline is tested only at the top of an iteration: a timeout
\* is raised only as the first step of the call or directly after a timer
\* fired, never while a status check or a sleep is in progress, even when
\* the deadline has passed meanwhile; and a reply "done without error" to a
\* check started before the deadline makes the call return that record,
\* also when the reply arrives after the deadline.
C27_DeadlineOnlyAtTop ==
    /\ \A i \in 1..Len(pollTrace) :
          pollTrace[i].ev = "timeout" =>
             /\ i = 1 \/ pollTrace[i - 1].ev = "wake"
             /\ pollTrace[i].at - startTime >= timeoutMs
    /\ \A i \in 1..Len(pollTrace) :
          pollTrace[i].ev = "check" => pollTrace[i].at - startTime < timeoutMs
    /\ pollPc \in {"awaitStatus", "sleeping"} => pollResult = PollPending
    /\ (LastPollEvent = "reply" /\ operation.done = "true" /\ ~operation.hasError)
          => /\ pollPc = "returned"
             /\ pollResult.state = "returned"
             /\ pollResult.operation = operation

\* C27 witness: timeout 1 s, the first check answers "done" after 2 s, and
\* the call returns the record
C27_Witness ==
    /\ pollPc = "returned"
    /\ timeoutSeconds = 1
    /\ Checks = 1
    /\ now - startTime = 2000
    /\ pollResult.operation = OperationRecord("true", FALSE, Undefined, Undefined, Undefined)

----------------------------------------------------------------------------
(* Edges of retryWithBackoff, checked under Spec *)

C30_ObserverThrowAborts ==
    /\ (options.onRetry = "throws" /\ Len(ObserverCalls) >= 1)
          => /\ Len(ObserverCalls) = 1
             /\ LastEvent = "onRetry"
             /\ pc = "rejected"
             /\ settled.state = "rejected"
             /\ settled.origin = "onRetry"
             /\ settled.error # error
             /\ Sleeps = <<>>
             /\ Invocations = 1
             /\ onRetryArg.error = error
    /\ settled.origin = "onRetry" => options.onRetry = "throws"

\* C30 witness: a 503 on the first of three attempts, and a throwing observer
C30_Witness ==
    /\ options.onRetry = "throws"
    /\ maxAttempts = MaxAttemptsBound
    /\ error = StatusError(503)
    /\ settled.origin = "onRetry"
    /\ Invocations = 1

----------------------------------------------------------------------------
(* purgeCache, cdn-client.js:114-190: the POST wrapped in retryWithBackoff.
   The executor is the one modelled above, started with the options written
   at cdn-client.js:137-150; fn is the POST. *)

\* Faulty variant: one attempt more
PurgeOptionsThirteen ==
    [maxAttempts |-> Given(RInt(13)), initialDelay |-> Given(RInt(10000)),
     maxDelay |-> Given(RInt(120000)), factor |-> Given(Rat(3, 2)), onRetry |-> "returns"]

\* cdn-client.js:137-150; the observer only logs a warning
PurgeOptions ==
    [maxAttempts |-> Given(RInt(12)), initialDelay |-> Given(RInt(10000)),
     maxDelay |-> Given(RInt(120000)), factor |-> Given(Rat(3, 2)), onRetry |-> "returns"]

\* the errors the HTTP client rejects with: a response with a status, or none
AxiosStatusError(st) ==
    ErrorValue("object", TRUE, st, FALSE, "", "string",
               "Request failed with status code " \o ToString(st))

AxiosNetworkError(c, m) == ErrorValue("object", FALSE, 0, TRUE, c, "string", m)

PostFailureChoices ==
    {AxiosStatusError(400), AxiosStatusError(401), AxiosStatusError(403),
     AxiosStatusError(404), AxiosStatusError(429), AxiosStatusError(503),
     AxiosNetworkError("ECONNRESET", "socket hang up"),
     AxiosNetworkError("EPIPE", "write EPIPE")}

\* response.data.id of a successful POST; "" when data or its id is missing
PostResponseChoices == {"op-a", ""}

PurgeResourceChoices == {"", "bc8rabcdefgh12345678"}

\* error.response.statusText
StatusText(st) ==
    CASE st = 400 -> "Bad Request"
      [] st = 429 -> "Too Many Requests"
      [] st = 503 -> "Service Unavailable"
      [] OTHER -> ""

PurgePending == [state |-> "pending", kind |-> "none", message |-> "", id |-> ""]

PurgeReturned(id) == [state |-> "returned", kind |-> "none", message |-> "", id |-> id]

PurgeThrown(kind, message) == [state |-> "thrown", kind |-> kind, message |-> message, id |-> ""]

\* cdn-client.js:162-187: the catch block of purgeCache
PurgeFailure(e) ==
    IF e.hasStatus
    THEN CASE e.status = 404 ->
                 PurgeThrown("notFound", "CDN Resource not found: " \o resourceId \o ". "
                                 \o "Please verify the resource ID is correct.")
           [] e.status = 403 ->
                 PurgeThrown("permission", "Permission denied for resource: " \o resourceId \o ". "
                                 \o "Ensure the service account has \"cdn.editor\" role or higher.")
           [] e.status = 401 ->
                 PurgeThrown("auth", "Authentication failed. IAM token may be expired or invalid.")
           [] OTHER ->
                 PurgeThrown("purgeFailed", "CDN purge failed: " \o ToString(e.status) \o " - "
                                 \o StatusText(e.status) \o ". Resource: " \o resourceId)
    ELSE PurgeThrown("rethrown", e.message)

\* purgeCache is called
InitPurge ==
    /\ RetryIdle
    /\ PollIdle
    /\ RunIdle
    /\ PairIdle
    /\ resourceId \in PurgeResourceChoices
    /\ purgePc = "called"
    /\ purgeResult = PurgePending
    /\ resourceCname = ""
    /\ folderId = ""
    /\ listing = <<>>
    /\ pageNo = 0
    /\ lookupPc = "idle"
    /\ lookupResult = [state |-> "pending", kind |-> "none", message |-> "", resource |-> [id |-> "", cname |-> ""]]
    /\ listRequests = <<>>

\* cdn-client.js:115-133: validation, then retryWithBackoff is entered
\* (retry.js:63-72)
PurgeCall ==
    /\ purgePc = "called"
    /\ IF resourceId = ""
       THEN /\ purgePc' = "thrown"
            /\ purgeResult' = PurgeThrown("validation", "Resource ID is required and must be a string")
            /\ UNCHANGED <<options, pc, delay>>
       ELSE /\ purgePc' = "retrying"
            /\ UNCHANGED purgeResult
            /\ options' = PurgeOptions
            /\ pc' = "loop"
            /\ delay' = Destructure(PurgeOptions.initialDelay, RInt(DefaultInitialDelay))
    /\ UNCHANGED <<attempt, error, isRetryable, returned, onRetryArg, settled, trace>>
    /\ UNCHANGED <<resourceId, resourceCname, folderId, listing, pageNo, lookupPc, lookupResult,
                   listRequests>>
    /\ UNCHANGED <<pollVars, runVars, pairVars>>

\* the promise of retryWithBackoff has settled: cdn-client.js:154-188
PurgeSettles ==
    /\ purgePc = "retrying"
    /\ settled.state # "pending"
    /\ IF settled.state = "resolved"
       THEN IF returned = ""
            THEN /\ purgePc' = "thrown"
                 /\ purgeResult' = PurgeThrown("missingId",
                                       "Invalid response from CDN purge API: missing operation ID")
            ELSE /\ purgePc' = "returned"
                 /\ purgeResult' = PurgeReturned(returned)
       ELSE /\ purgePc' = "thrown"
            /\ purgeResult' = PurgeFailure(settled.error)
    /\ UNCHANGED <<resourceId, resourceCname, folderId, listing, pageNo, lookupPc, lookupResult,
                   listRequests>>
    /\ UNCHANGED <<retryVars, pollVars, runVars, pairVars>>

NextPurge ==
    \/ PurgeCall
    \/ LoopEnter
    \/ \E v \in PostResponseChoices : FnResolves(v)
    \/ \E e \in PostFailureChoices : FnRejects(e)
    \/ SleepDone
    \/ PurgeSettles

SpecPurge == InitPurge /\ [][NextPurge]_vars

PurgeTerminal == purgePc \in {"returned", "thrown"}

\* C25: a call of purgeCache sends the POST at most 12 times; it sends it
\* again only after a retryable failure, the observer's warning and the
\* backoff sleep; a non-retryable failure is the last thing the sequence
\* sees (the POST was sent once when it is the first); and a successful
\* response ends the sequence, also when it lacks the operation id, which
\* fails the call.
C25_PurgeSendsAtMostTwelve ==
    /\ Invocations <= 12
    /\ resourceId = "" => Invocations = 0
    /\ \A i \in 2..Len(trace) :
          trace[i].ev = "invoke" =>
             /\ i >= 6
             /\ trace[i - 1].ev = "advance"
             /\ trace[i - 2].ev = "sleep"
             /\ trace[i - 3].ev = "onRetry"
             /\ trace[i - 4].ev = "threw" /\ trace[i - 4].retryable = "true"
             /\ trace[i - 5].ev = "invoke"
    /\ \A i \in 1..Len(trace) :
          (trace[i].ev = "returned" \/ (trace[i].ev = "threw" /\ trace[i].retryable # "true"))
             => (i = Len(trace) /\ Terminal)
    /\ (Len(trace) >= 2 /\ trace[2].ev = "threw" /\ trace[2].retryable = "false")
          => (Invocations = 1 /\ settled = Rejected("fn", error))
    /\ (PurgeTerminal /\ purgeResult.kind = "missingId")
          => (settled.state = "resolved" /\ LastEvent = "returned" /\ returned = "")
    /\ (PurgeTerminal /\ settled.state = "resolved")
          => (IF returned = "" THEN purgeResult.kind = "missingId"
              ELSE purgeResult = PurgeReturned(returned))
    /\ (PurgeTerminal /\ settled.state = "rejected") => purgeResult = PurgeFailure(error)

\* C25 witness: eleven retryable failures, then a success without operation
\* id on the twelfth POST: the call fails, nothing is sent again
C25_Witness ==
    /\ purgePc = "thrown"
    /\ purgeResult.kind = "missingId"
    /\ Invocations = 12
    /\ Len(Sleeps) = 11

----------------------------------------------------------------------------
(* getResourceByCname, cdn-client.js:53-105: the paginated scan of the
   resource listing *)

MaxPages == 3

Resource(id, cname) == [id |-> id, cname |-> cname]

\* null
NoResource == Resource("", "")

\* response.data of one list request
Page(resources, token) == [resources |-> resources, nextPageToken |-> token]

\* what a page may hold: nothing, a foreign resource, a resource without
\* cname before the wanted one, two resources with the wanted cname
PageContentChoices ==
    {<<>>,
     <<Resource("r1", "b.example.com")>>,
     <<Resource("r0", ""), Resource("r2", "a.example.com")>>,
     <<Resource("r1", "b.example.com"), Resource("r3", "a.example.com"),
       Resource("r4", "a.example.com")>>}

\* the token of the last page: missing, empty, or not a string
LastTokenChoices == {Undefined, Str(""), Num(7)}

\* a listing of P pages: every page but the last names its successor
ListingChoices ==
    UNION {{[i \in 1..P |-> Page(c[i], IF i < P THEN Str("page-" \o ToString(i + 1)) ELSE t)] :
               c \in [1..P -> PageContentChoices], t \in LastTokenChoices} : P \in 1..MaxPages}

LookupCnameChoices == {"", "a.example.com"}

LookupFolderChoices == {"", "b1gfolder"}

LookupPending == [state |-> "pending", kind |-> "none", message |-> "", resource |-> NoResource]

LookupReturned(res) == [state |-> "returned", kind |-> "none", message |-> "", resource |-> res]

LookupThrown(kind, message) ==
    [state |-> "thrown", kind |-> kind, message |-> message, resource |-> NoResource]

\* the page the API serves for pageNo (an empty one beyond the listing)
ServedPage == IF pageNo \in 1..Len(listing) THEN listing[pageNo] ELSE Page(<<>>, Undefined)

Matches(resources) == {i \in 1..Len(resources) : resources[i].cname = resourceCname}

\* Faulty variant: the last match of the page is taken
MatchIndexLast(resources) ==
    IF Matches(resources) = {} THEN 0
    ELSE CHOOSE i \in Matches(resources) : \A j \in Matches(resources) : j <= i

\* cdn-client.js:76-80: the first resource whose cname equals the wanted one; 0 when none
MatchIndex(resources) ==
    IF Matches(resources) = {} THEN 0
    ELSE CHOOSE i \in Matches(resources) : \A j \in Matches(resources) : i <= j

\* cdn-client.js:83-89: the scan goes on only with a non-empty string token
TokenUsable(t) == Truthy(t) /\ t.t = "str" /\ Len(t.s) # 0

\* cdn-client.js:92-103
ListFailureMessage(f) ==
    IF f.hasResponse
    THEN "Failed to list CDN resources: " \o ToString(f.status) \o " - "
             \o Text(OrElse(f.dataMessage, OrElse(Str(f.statusText), Str("Unknown error"))))
             \o ". Folder: " \o folderId
    ELSE "Failed to list CDN resources: " \o f.message

\* getResourceByCname is called
InitLookup ==
    /\ RetryIdle
    /\ PollIdle
    /\ RunIdle
    /\ PairIdle
    /\ resourceId = ""
    /\ purgePc = "idle"
    /\ purgeResult = PurgePending
    /\ resourceCname \in LookupCnameChoices
    /\ folderId \in LookupFolderChoices
    /\ listing \in ListingChoices
    /\ pageNo = 0
    /\ lookupPc = "called"
    /\ lookupResult = LookupPending
    /\ listRequests = <<>>

\* cdn-client.js:54-67: validation, then the first list request (no pageToken)
LookupCall ==
    /\ lookupPc = "called"
    /\ IF resourceCname = ""
       THEN /\ lookupPc' = "thrown"
            /\ lookupResult' = LookupThrown("validation", "resourceCname is required and must be a string")
            /\ UNCHANGED <<pageNo, listRequests>>
       ELSE IF folderId = ""
       THEN /\ lookupPc' = "thrown"
            /\ lookupResult' = LookupThrown("validation", "folderId is required and must be a string")
            /\ UNCHANGED <<pageNo, listRequests>>
       ELSE /\ lookupPc' = "requesting"
            /\ pageNo' = 1
            /\ listRequests' = Append(listRequests, 1)
            /\ UNCHANGED lookupResult
    /\ UNCHANGED <<resourceId, purgePc, purgeResult, resourceCname, folderId, listing>>
    /\ UNCHANGED <<retryVars, pollVars, runVars, pairVars>>

\* a page arrives: cdn-client.js:75-90, and the next request of line 67
ListReplies ==
    /\ lookupPc = "requesting"
    /\ LET page == ServedPage
           hit  == MatchIndex(page.resources)
       IN  IF hit # 0
           THEN /\ lookupPc' = "returned"
                /\ lookupResult' = LookupReturned(page.resources[hit])
                /\ UNCHANGED <<pageNo, listRequests>>
           ELSE IF TokenUsable(page.nextPageToken)
           THEN /\ pageNo' = pageNo + 1
                /\ listRequests' = Append(listRequests, pageNo + 1)
                /\ UNCHANGED <<lookupPc, lookupResult>>
           ELSE /\ lookupPc' = "returned"
                /\ lookupResult' = LookupReturned(NoResource)
                /\ UNCHANGED <<pageNo, listRequests>>
    /\ UNCHANGED <<resourceId, purgePc, purgeResult, resourceCname, folderId, listing>>
    /\ UNCHANGED <<retryVars, pollVars, runVars, pairVars>>

\* a list request rejects: cdn-client.js:91-103
ListFails(f) ==
    /\ lookupPc = "requesting"
    /\ lookupPc' = "thrown"
    /\ lookupResult' = LookupThrown("list", ListFailureMessage(f))
    /\ UNCHANGED <<resourceId, purgePc, purgeResult, resourceCname, folderId, listing, pageNo,
                   listRequests>>
    /\ UNCHANGED <<retryVars, pollVars, runVars, pairVars>>

NextLookup ==
    \/ LookupCall
    \/ ListReplies
    \/ \E f \in HttpFailureChoices : ListFails(f)

SpecLookup == InitLookup /\ [][NextLookup]_vars

\* page i of the listing holds a resource with the wanted cname
PageHasMatch(i) == \E j \in 1..Len(listing[i].resources) : listing[i].resources[j].cname = resourceCname

\* C26: the pages are requested in order, each at most once and never more
\* than the listing has; page i+1 is requested only when page i has no
\* match and carries a non-empty string token; a match is returned from the
\* first page that has one, and it is the first match of that page; null is
\* returned iff no page has a match; a failed request ends the call with no
\* further request.
C26_ScanInOrder ==
    /\ Len(listRequests) <= Len(listing)
    /\ \A i \in 1..Len(listRequests) : listRequests[i] = i
    /\ \A i \in 2..Len(listRequests) :
          /\ ~PageHasMatch(i - 1)
          /\ listing[i - 1].nextPageToken.t = "str"
          /\ listing[i - 1].nextPageToken.s # ""
    /\ lookupPc = "requesting" => pageNo = Len(listRequests)
    /\ lookupResult.state = "returned" =>
          LET k == Len(listRequests)
          IN  IF lookupResult.resource = NoResource
              THEN /\ \A i \in 1..Len(listing) : ~PageHasMatch(i)
                   /\ k = Len(listing)
              ELSE /\ PageHasMatch(k)
                   /\ \A i \in 1..(k - 1) : ~PageHasMatch(i)
                   /\ \E j \in 1..Len(listing[k].resources) :
                         /\ listing[k].resources[j] = lookupResult.resource
                         /\ lookupResult.resource.cname = resourceCname
                         /\ \A h \in 1..(j - 1) : listing[k].resources[h].cname # resourceCname
    /\ (lookupResult.state = "thrown" /\ lookupResult.kind = "list")
          => (lookupPc = "thrown" /\ Len(listRequests) = pageNo /\ pageNo >= 1)
    /\ (lookupResult.state = "thrown" /\ lookupResult.kind = "validation") => listRequests = <<>>

\* C26 witness: three pages, the second holds two resources with the wanted
\* cname: the first of them is returned and the third page is not requested
C26_Witness ==
    /\ Len(listing) = 3
    /\ lookupPc = "returned"
    /\ listRequests = <<1, 2>>
    /\ lookupResult.resource = Resource("r3", "a.example.com")
    /\ PageHasMatch(3)

----------------------------------------------------------------------------
(* Two executions in flight.  retryWithBackoff keeps attempt and delay in
   locals (retry.js:71-72) and waitForOperation keeps startTime, timeoutMs
   and lastProgress in locals (cdn-client.js:243-252); two calls interleave
   at their awaits.  Each execution is a record of its locals, and a log of
   what it was given and what it did. *)

\* the options of an execution; its observer records what it is handed
PairConfigChoices ==
    {[maxAttempts |-> 2, initialDelay |-> RInt(10), maxDelay |-> RInt(20), factor |-> Rat(2, 1)],
     [maxAttempts |-> 3, initialDelay |-> RInt(10), maxDelay |-> RInt(20), factor |-> Rat(3, 2)],
     [maxAttempts |-> 3, initialDelay |-> RInt(30), maxDelay |-> RInt(20), factor |-> Rat(1, 2)]}

\* what an invocation of fn does: resolves, or rejects with an error the
\* classifier judges retryable or not
PairOutcomeChoices == {"ok", "retryable", "fatal"}

\* retry.js:63-72
NewExec(cfg) ==
    [cfg |-> cfg, pc |-> "loop", attempt |-> 0, delay |-> cfg.initialDelay,
     outcomes |-> <<>>, sleeps |-> <<>>, records |-> <<>>, result |-> "pending"]

\* retry.js:74-77, 101
PairEnter(i) ==
    /\ i \in DOMAIN execs
    /\ execs[i].pc = "loop"
    /\ LET x == execs[i]
       IN  execs' = [execs EXCEPT ![i] =
              IF x.attempt < x.cfg.maxAttempts
              THEN [x EXCEPT !.attempt = x.attempt + 1, !.pc = "awaitFn"]
              ELSE [x EXCEPT !.pc = "settled", !.result = "loopExit"]]
    /\ UNCHANGED <<polls, clock>>
    /\ UNCHANGED <<retryVars, pollVars, runVars, clientVars>>

\* retry.js:77-95: fn settles
PairSettle(i, o) ==
    /\ i \in DOMAIN execs
    /\ execs[i].pc = "awaitFn"
    /\ LET x == [execs[i] EXCEPT !.outcomes = Append(@, o)]
       IN  execs' = [execs EXCEPT ![i] =
              IF o = "ok"
              THEN [x EXCEPT !.pc = "settled", !.result = "resolved"]
              ELSE IF o # "retryable" \/ x.attempt >= x.cfg.maxAttempts
              THEN [x EXCEPT !.pc = "settled", !.result = "rejected"]
              ELSE [x EXCEPT !.pc = "sleeping",
                             !.records = Append(@, [attempt |-> x.attempt,
                                                    maxAttempts |-> x.cfg.maxAttempts,
                                                    delay |-> x.delay]),
                             !.sleeps = Append(@, x.delay)]]
    /\ UNCHANGED <<polls, clock>>
    /\ UNCHANGED <<retryVars, pollVars, runVars, clientVars>>

\* Faulty variant: delay is not a local: the timer of one execution
\* advances the delay of every execution
PairWakeShared(i) ==
    /\ i \in DOMAIN execs
    /\ execs[i].pc = "sleeping"
    /\ execs' = [j \in DOMAIN execs |->
                    [execs[j] EXCEPT !.delay = MathMin(RMul(execs[j].delay, execs[j].cfg.factor),
                                                       execs[j].cfg.maxDelay),
                                     !.pc = IF j = i THEN "loop" ELSE @]]
    /\ UNCHANGED <<polls, clock>>
    /\ UNCHANGED <<retryVars, pollVars, runVars, clientVars>>

\* retry.js:95-96: the timer fires
PairWake(i) ==
    /\ i \in DOMAIN execs
    /\ execs[i].pc = "sleeping"
    /\ execs' = [execs EXCEPT ![i] =
                    [@ EXCEPT !.delay = MathMin(RMul(@, execs[i].cfg.factor), execs[i].cfg.maxDelay),
                              !.pc = "loop"]]
    /\ UNCHANGED <<polls, clock>>
    /\ UNCHANGED <<retryVars, pollVars, runVars, clientVars>>


MaxClock == 10000

PairTimeoutChoices == {1, 6}

PairReplyChoices ==
    {OperationRecord("false", FALSE, Undefined, Undefined, Undefined),
     OperationRecord("false", FALSE, Undefined, Undefined, Num(50)),
     OperationRecord("false", FALSE, Undefined, Undefined, Num(60)),
     OperationRecord("true", FALSE, Undefined, Undefined, Undefined),
     OperationRecord("true", TRUE, Str("X"), Str("Y"), Undefined)}

\* waitForOperation called, not yet run
NewPoll(t) ==
    [timeoutSeconds |-> t, pc |-> "called", startTime |-> 0, lastProgress |-> Undefined,
     wakeAt |-> 0, calledAt |-> 0, tops |-> <<>>, replies |-> <<>>, notes |-> <<>>,
     result |-> "pending"]

\* two calls of retryWithBackoff, or two calls of waitForOperation
InitPair ==
    /\ RetryIdle
    /\ PollIdle
    /\ RunIdle
    /\ ClientIdle
    /\ clock = 0
    /\ \/ /\ execs \in [1..2 -> {NewExec(c) : c \in PairConfigChoices}]
          /\ polls = <<>>
       \/ /\ execs = <<>>
          /\ polls \in [1..2 -> {NewPoll(t) : t \in PairTimeoutChoices}]

\* cdn-client.js:243-252
PollerStart(i) ==
    /\ i \in DOMAIN polls
    /\ polls[i].pc = "called"
    /\ polls' = [polls EXCEPT ![i] = [@ EXCEPT !.startTime = clock, !.calledAt = clock, !.pc = "top"]]
    /\ UNCHANGED <<execs, clock>>
    /\ UNCHANGED <<retryVars, pollVars, runVars, clientVars>>

\* cdn-client.js:255-265: the deadline test
PollerTop(i) ==
    /\ i \in DOMAIN polls
    /\ polls[i].pc = "top"
    /\ LET x == [polls[i] EXCEPT !.tops = Append(@, clock)]
       IN  polls' = [polls EXCEPT ![i] =
              IF clock - x.startTime >= x.timeoutSeconds * 1000
              THEN [x EXCEPT !.pc = "settled", !.result = "timeout"]
              ELSE [x EXCEPT !.pc = "awaitStatus"]]
    /\ UNCHANGED <<execs, clock>>
    /\ UNCHANGED <<retryVars, pollVars, runVars, clientVars>>

\* cdn-client.js:265-296: a status arrives
PollerReply(i, op) ==
    /\ i \in DOMAIN polls
    /\ polls[i].pc = "awaitStatus"
    /\ LET x == [polls[i] EXCEPT !.replies = Append(@, op)]
       IN  polls' = [polls EXCEPT ![i] =
              IF op.done = "true"
              THEN [x EXCEPT !.pc = "settled",
                             !.result = IF op.hasError THEN "failed" ELSE "returned"]
              ELSE IF Truthy(op.progress) /\ op.progress # x.lastProgress
              THEN [x EXCEPT !.pc = "sleeping", !.wakeAt = clock + pollInterval,
                             !.lastProgress = op.progress,
                             !.notes = Append(@, op.progress)]
              ELSE [x EXCEPT !.pc = "sleeping", !.wakeAt = clock + pollInterval,
                             !.notes = Append(@, Undefined)]]
    /\ UNCHANGED <<execs, clock>>
    /\ UNCHANGED <<retryVars, pollVars, runVars, clientVars>>

\* cdn-client.js:296: the timer fires, not before the interval has passed
PollerWake(i) ==
    /\ i \in DOMAIN polls
    /\ polls[i].pc = "sleeping"
    /\ clock >= polls[i].wakeAt
    /\ polls' = [polls EXCEPT ![i] = [@ EXCEPT !.pc = "top"]]
    /\ UNCHANGED <<execs, clock>>
    /\ UNCHANGED <<retryVars, pollVars, runVars, clientVars>>

\* time passes: the clock the two pollers read advances by one poll interval
Tick ==
    /\ polls # <<>>
    /\ clock + pollInterval <= MaxClock
    /\ clock' = clock + pollInterval
    /\ UNCHANGED <<execs, polls>>
    /\ UNCHANGED <<retryVars, pollVars, runVars, clientVars>>

NextPair ==
    \/ \E i \in 1..2 : PairEnter(i)
    \/ \E i \in 1..2, o \in PairOutcomeChoices : PairSettle(i, o)
    \/ \E i \in 1..2 : PairWake(i)
    \/ \E i \in 1..2 : PollerStart(i)
    \/ \E i \in 1..2 : PollerTop(i)
    \/ \E i \in 1..2, op \in PairReplyChoices : PollerReply(i, op)
    \/ \E i \in 1..2 : PollerWake(i)
    \/ Tick

SpecPair == InitPair /\ [][NextPair]_vars

\* the k-th delay of an execution running alone: initialDelay, then
\* min(previous * factor, maxDelay) (the schedule of C7)
RECURSIVE DelayAt(_, _)
DelayAt(cfg, k) ==
    IF k <= 1 THEN cfg.initialDelay
    ELSE MathMin(RMul(DelayAt(cfg, k - 1), cfg.factor), cfg.maxDelay)

\* what an execution of retryWithBackoff does alone, given the outcomes of
\* its own invocations: attempt count, delays, observer records, outcome
AloneExec(x) ==
    LET n == Len(x.outcomes)
        last == IF n = 0 THEN "none" ELSE x.outcomes[n]
        ended == last = "ok" \/ last = "fatal" \/ (last = "retryable" /\ n >= x.cfg.maxAttempts)
    IN  /\ x.attempt = n + (IF x.pc = "awaitFn" THEN 1 ELSE 0)
        /\ x.attempt <= x.cfg.maxAttempts
        /\ \A k \in 1..(n - 1) : x.outcomes[k] = "retryable"
        /\ Len(x.sleeps) = (IF ended THEN n - 1 ELSE n)
        /\ Len(x.records) = Len(x.sleeps)
        /\ \A k \in 1..Len(x.sleeps) :
              /\ x.sleeps[k] = DelayAt(x.cfg, k)
              /\ x.records[k] = [attempt |-> k, maxAttempts |-> x.cfg.maxAttempts,
                                 delay |-> DelayAt(x.cfg, k)]
        /\ x.delay = DelayAt(x.cfg, IF x.pc = "sleeping" THEN Len(x.sleeps) ELSE Len(x.sleeps) + 1)
        /\ x.result = (IF last = "ok" THEN "resolved" ELSE IF ended THEN "rejected" ELSE "pending")
        /\ (x.pc = "settled") = ended

\* the progress last announced by a poller running alone: the latest truthy
\* progress among its first k replies
RECURSIVE LastTruthy(_, _)
LastTruthy(replies, k) ==
    IF k = 0 THEN Undefined
    ELSE IF replies[k].done # "true" /\ Truthy(replies[k].progress) THEN replies[k].progress
    ELSE LastTruthy(replies, k - 1)

\* what an execution of waitForOperation does alone, given its own replies
\* and the clock readings of its own deadline tests
AlonePoll(x) ==
    LET n == Len(x.replies)
        m == Len(x.tops)
        lastReply == IF n = 0 THEN NoOperation ELSE x.replies[n]
        late(k) == x.tops[k] - x.calledAt >= x.timeoutSeconds * 1000
    IN  /\ x.pc # "called" => x.startTime = x.calledAt
        /\ \A k \in 1..(m - 1) : ~late(k)
        /\ \A k \in 2..m : x.tops[k] - x.tops[k - 1] >= pollInterval
        /\ \A k \in 1..(n - 1) : x.replies[k].done # "true"
        /\ x.lastProgress = LastTruthy(x.replies, n)
        /\ Len(x.notes) = (IF lastReply.done = "true" THEN n - 1 ELSE n)
        /\ \A k \in 1..Len(x.notes) :
              x.notes[k] = (IF Truthy(x.replies[k].progress)
                                 /\ x.replies[k].progress # LastTruthy(x.replies, k - 1)
                            THEN x.replies[k].progress ELSE Undefined)
        /\ x.result = (IF m >= 1 /\ late(m) THEN "timeout"
                       ELSE IF lastReply.done = "true"
                            THEN (IF lastReply.hasError THEN "failed" ELSE "returned")
                       ELSE "pending")
        /\ (x.pc = "settled") = (x.result # "pending")

\* C24: in every interleaving of two executions of retryWithBackoff, and of
\* two executions of waitForOperation, each execution's attempt count,
\* delays, observer records, notifications and outcome are those it has
\* when run alone on the same outcomes of its own operation.
C24_ExecutionsIndependent ==
    /\ \A i \in DOMAIN execs : AloneExec(execs[i])
    /\ \A i \in DOMAIN polls : AlonePoll(polls[i])

\* C24 witness: one execution has been rejected after a retry, on the
\* delays 10 then 20, while a second one with other options sleeps for the
\* first time, on its own delay 30
C24_Witness ==
    /\ execs # <<>>
    /\ execs[1].cfg.maxAttempts = 2
    /\ execs[1].result = "rejected"
    /\ execs[1].sleeps = <<RInt(10)>>
    /\ execs[1].delay = RInt(20)
    /\ execs[2].pc = "sleeping"
    /\ execs[2].sleeps = <<RInt(30)>>
    /\ execs[2].delay = RInt(30)

====
